---------------------------- MODULE Spec2Model ----------------------------
(***************************************************************************)
(* Mood & Memory Assistant firmware (Electrothon_29th_Aug.ino): the main   *)
(* loop, the button debounce, the tag session, the medicine scheduler and  *)
(* the acknowledgment handler, as one state machine.                       *)
(*                                                                         *)
(* Time is counted in milliseconds.  millis() is a 32-bit unsigned value;  *)
(* it is kept as two 16-bit halves so that its wrap-around at 2^32 is the  *)
(* code's.  The real-time clock is the number of milliseconds since        *)
(* 00:00:00 of the first date of Dates.  delay(n) advances both.           *)
(***************************************************************************)
EXTENDS Integers, Sequences, FiniteSets, TLC

(***************************************************************************)
(* Program constants                                                       *)
(***************************************************************************)
DEBOUNCE_MS == 200
IDLE_MENU_MS == 15000
SCHEDULE_CHECK_MS == 5000
KNOWN_COUNT == 3
AFF_COUNT == 5
MED_COUNT == 4
ShortBeepMs == 100
LongBeepMs == 300
AbsenceMs == 300
PollDelayMs == 20
LoopDelayMs == 20
SOS_DURATION == 5000
SetupDelayMs == 50
StartupDelayMs == 1800
RtcNotFoundMs == 2500
RtcLostPowerMs == 1800
MemoryPromptMs == 1000

\* Widths of the target's integer types: unsigned long is two 16-bit halves,
\* int is 16 bits (Arduino Nano).
HalfMod == 65536
IntMod == 65536
IntMax == 32767

MsPerSec == 1000
MsPerMin == 60000
MsPerHour == 3600000
MsPerDay == 86400000

(***************************************************************************)
(* Bounds of the model                                                     *)
(***************************************************************************)
\* model time a run from a fresh boot may cover, in ms
MaxRunMs == 26000
\* model time the run that holds a tag over an hour boundary may cover
MaxLongRunMs == 76000
\* number of changes the environment makes to the button lines and the tag
MaxEnvEvents == 2
\* the long-running device is WrapLeadMs before millis() wraps to 0
WrapLeadMs == 4950
\* polls in a row that may miss a tag that is in the field
MaxMissedPolls == 1

(***************************************************************************)
(* unsigned long arithmetic (mod 2^32) on [hi, lo] halves                  *)
(***************************************************************************)
U32(h, l) == [hi |-> h, lo |-> l]
U32Zero == U32(0, 0)

\* x + d for a natural d below 2^31
U32Add(x, d) ==
    LET s == x.lo + d
    IN  U32((x.hi + (s \div HalfMod)) % HalfMod, s % HalfMod)

\* a - b, unsigned, wrapping
U32Sub(a, b) ==
    LET borrow == IF a.lo < b.lo THEN 1 ELSE 0
    IN  U32((a.hi - b.hi - borrow) % HalfMod, (a.lo - b.lo) % HalfMod)

\* x > n and x >= n for a natural n below 2^16
U32Gt(x, n) == x.hi > 0 \/ x.lo > n
U32Ge(x, n) == x.hi > 0 \/ x.lo >= n

(***************************************************************************)
(* The clock: DateTime fields of a clock value (ms since the first date)   *)
(***************************************************************************)
\* the calendar dates the clock runs through, <<year, month, day>>
Dates == << <<2025, 8, 29>>, <<2025, 8, 30>>, <<2025, 8, 31>> >>

DayOf(t) == t \div MsPerDay
YearOf(t) == Dates[DayOf(t) + 1][1]
MonthOf(t) == Dates[DayOf(t) + 1][2]
DayOfMonth(t) == Dates[DayOf(t) + 1][3]
HourOf(t) == (t \div MsPerHour) % 24
MinuteOf(t) == (t \div MsPerMin) % 60
SecondOf(t) == (t \div MsPerSec) % 60

\* the hour of a clock value, counted from the first date
DayHour(t) == t \div MsPerHour

\* a clock value from day index, hour, minute, second, millisecond
ClockAt(d, h, m, s, ms) ==
    d * MsPerDay + h * MsPerHour + m * MsPerMin + s * MsPerSec + ms

\* a 16-bit unsigned value converted to int
ToInt16(u) == IF u > IntMax THEN u - IntMod ELSE u

\* ymdNow: year*10000 + month*100 + day, computed in 16-bit unsigned
\* arithmetic (uint16_t * int) and stored in an int
YmdOfDate(y, mo, d) == ToInt16((y * 10000 + mo * 100 + d) % IntMod)
ymdNow(t) == YmdOfDate(YearOf(t), MonthOf(t), DayOfMonth(t))

(***************************************************************************)
(* Strings are sequences of character codes                                *)
(***************************************************************************)
\* "%02d" of a value 0..99
Fmt02(n) == << 48 + (n \div 10), 48 + (n % 10) >>

\* timeToStr: "HH:MM:SS"
timeToStr(t) ==
    Fmt02(HourOf(t)) \o <<58>> \o Fmt02(MinuteOf(t)) \o <<58>> \o Fmt02(SecondOf(t))

\* one hex digit of uidToHex: '0' + n or 'A' + (n - 10)
HexChar(n) == IF n < 10 THEN 48 + n ELSE 65 + (n - 10)

\* uidToHex: two uppercase hex digits per byte, high nibble first
RECURSIVE uidToHex(_)
uidToHex(bytes) ==
    IF bytes = <<>> THEN <<>>
    ELSE << HexChar((Head(bytes) \div 16) % 16), HexChar(Head(bytes) % 16) >>
         \o uidToHex(Tail(bytes))

ToLower(c) == IF c >= 65 /\ c <= 90 THEN c + 32 ELSE c

\* the character of a C string at index i (1-based), 0 past its end
CharAt(s, i) == IF i <= Len(s) THEN s[i] ELSE 0

\* mutant of strcasecmp: only the first Len(b) characters are compared
strcasecmp_Prefix(a, b) ==
    IF \A k \in 1 .. Len(b) : ToLower(CharAt(a, k)) = ToLower(b[k]) THEN 0 ELSE 1

\* strcasecmp: difference of the first pair of lowercased characters that
\* differ, 0 when both strings end together
RECURSIVE StrCaseCmpFrom(_, _, _)
StrCaseCmpFrom(a, b, i) ==
    LET ca == ToLower(CharAt(a, i))
        cb == ToLower(CharAt(b, i))
    IN  IF ca # cb THEN ca - cb
        ELSE IF ca = 0 THEN 0
        ELSE StrCaseCmpFrom(a, b, i + 1)
strcasecmp(a, b) == StrCaseCmpFrom(a, b, 1)

(***************************************************************************)
(* Tables                                                                  *)
(***************************************************************************)
\* knownItems[].uidHex: "6C433E06", "05F7A904", "26B0A304"
KnownUidHex ==
    << <<54, 67, 52, 51, 51, 69, 48, 54>>,
       <<48, 53, 70, 55, 65, 57, 48, 52>>,
       <<50, 54, 66, 48, 65, 51, 48, 52>> >>
KnownName == << "Keys", "Medicine Box", "Glasses" >>
\* "00:00:00"
InitScanned == <<48, 48, 58, 48, 48, 58, 48, 48>>

\* meds[]: name, hour, minute
MedName == << "BP Tablet", "Vitamin D", "Insulin", "Calcium" >>
MedHour == << 8, 13, 18, 22 >>
MedMinute == << 0, 30, 0, 0 >>

KnownIdx == 0 .. (KNOWN_COUNT - 1)
MedIdx == 0 .. (MED_COUNT - 1)
BtnIdx == 0 .. 3

\* tags, as uid bytes: the three known tags, a tag that differs from "Keys"
\* in its last byte, and a 7-byte tag whose first four bytes are those of
\* "Keys"; Tags are the ones the environment presents
TagKeys == <<108, 67, 62, 6>>
TagMedBox == <<5, 247, 169, 4>>
TagGlasses == <<38, 176, 163, 4>>
TagOther == <<108, 67, 62, 7>>
TagLong == <<108, 67, 62, 6, 1, 2, 3>>
Tags == {TagKeys, TagGlasses, TagOther, TagLong}
NoTag == <<>>

(***************************************************************************)
(* State                                                                   *)
(***************************************************************************)
VARIABLES
    pc,                 \* where the firmware is: "setup", "loop" (top of
                        \* loop), "session", "sessionOff", "sessionHalt",
                        \* "sched", "btnMem", "btnMed", "btnEx", "sos", "idle"
    millis,             \* millis(), an unsigned long
    elapsed,            \* ms since the first state of the run
    rtc,                \* what rtc.now() reads, ms since the first date
    rtcState,           \* the clock chip: "ok", "lostPower", "notFound"
    horizon,            \* the run takes no new input once elapsed >= horizon
    lastDebounceTime,   \* [BtnIdx -> unsigned long]
    lastActivity,
    lastScheduleCheck,
    lastHydrationHour,
    pending,            \* meds[i].pending
    lastAckYMD,         \* meds[i].lastAckYMD
    lastScanned,        \* knownItems[i].lastScanned
    buzzer,             \* BUZZER_PIN: "HIGH" or "LOW"
    lcd,                \* what the display shows
    lastSeen,           \* handleRFID_Auto's local
    readerOpen,         \* a tag was read and the reader not yet halted
    btnLow,             \* [BtnIdx -> BOOLEAN]: the button line reads LOW
    tagNear,            \* uid bytes of the tag in the field, or NoTag
    envLeft,            \* changes the environment may still make
    act,                \* the step just taken: [a |-> name, i |-> index]
    out,                \* what that step wrote to the display and buzzer
    armDay,             \* history: day index on which entry i last became
                        \* pending, -1 if never
    ackDay,             \* history: day index on which entry i was last
                        \* acknowledged, -1 if never
    lastNudge,          \* history: day * 24 + hour of the last hydration
                        \* nudge rendered, -1 if none
    readAt              \* history: elapsed at the last successful tag read

timeVars == <<millis, elapsed, rtc>>
hwVars == <<rtcState, horizon>>
envVars == <<btnLow, tagNear, envLeft>>
btnVars == <<lastDebounceTime, lastActivity>>
medVars == <<pending, lastAckYMD, armDay, ackDay>>
tagVars == <<lastScanned, lastSeen, readerOpen, readAt>>
hydVars == <<lastHydrationHour, lastNudge>>
vars == <<pc, millis, elapsed, rtc, rtcState, horizon, lastDebounceTime,
          lastActivity, lastScheduleCheck, lastHydrationHour, pending,
          lastAckYMD, lastScanned, buzzer, lcd, lastSeen, readerOpen, btnLow,
          tagNear, envLeft, act, out, armDay, ackDay, lastNudge, readAt>>

\* display contents and output events
Screen(s, n, t) == [screen |-> s, idx |-> n, text |-> t]
MenuScreen == Screen("Menu", -1, <<>>)
Ev(o, n) == [o |-> o, n |-> n]
Beep(ms) == Ev("beep", ms)
Act(a, i) == [a |-> a, i |-> i]

\* delay(d): the clock chip, when there is none, reads the same value forever
Advance(d) ==
    /\ millis' = U32Add(millis, d)
    /\ elapsed' = elapsed + d
    /\ rtc' = IF rtcState = "notFound" THEN rtc ELSE rtc + d

(***************************************************************************)
(* Initial states                                                          *)
(***************************************************************************)
\* power-on: the clock the chip holds, its condition, and how long the run is
Boots ==
    { [clock |-> ClockAt(0, 7, 59, 50, 0), rtc |-> "ok", run |-> MaxRunMs],
      [clock |-> ClockAt(0, 7, 59, 50, 0), rtc |-> "lostPower", run |-> MaxRunMs],
      [clock |-> ClockAt(0, 8, 0, 0, 0), rtc |-> "notFound", run |-> MaxRunMs],
      [clock |-> ClockAt(0, 13, 29, 50, 0), rtc |-> "ok", run |-> MaxRunMs],
      [clock |-> ClockAt(0, 17, 59, 50, 0), rtc |-> "ok", run |-> MaxLongRunMs],
      [clock |-> ClockAt(0, 23, 59, 50, 0), rtc |-> "ok", run |-> MaxRunMs] }

\* the globals as the sketch initialises them (lines 35-86), before setup()
BootState(b) ==
    /\ rtc = b.clock
    /\ rtcState = b.rtc
    /\ horizon = b.run
    /\ pc = "setup"
    /\ millis = U32Zero
    /\ elapsed = 0
    /\ lastDebounceTime = [i \in BtnIdx |-> U32Zero]
    /\ lastActivity = U32Zero
    /\ lastScheduleCheck = U32Zero
    /\ lastHydrationHour = -1
    /\ pending = [i \in MedIdx |-> FALSE]
    /\ lastAckYMD = [i \in MedIdx |-> 0]
    /\ lastScanned = [i \in KnownIdx |-> InitScanned]
    /\ buzzer = "LOW"
    /\ lcd = Screen("Blank", -1, <<>>)
    /\ lastSeen = U32Zero
    /\ readerOpen = FALSE
    /\ btnLow = [i \in BtnIdx |-> FALSE]
    /\ tagNear = NoTag
    /\ envLeft = MaxEnvEvents
    /\ act = Act("init", -1)
    /\ out = <<>>
    /\ armDay = [i \in MedIdx |-> -1]
    /\ ackDay = [i \in MedIdx |-> -1]
    /\ lastNudge = -1
    /\ readAt = 0

InitBoot == \E b \in Boots : BootState(b)

\* A device that has run untouched (no button, no tag) since power-on and is
\* WrapLeadMs before millis() wraps: at the top of loop(), just after a
\* scheduler cycle that rendered MED DUE (300 ms beep, 500 ms delay, 20 ms
\* loop delay).  Every dose came due at least once and none was acknowledged;
\* the last hydration nudge was for the current hour.
LongRunClock == ClockAt(1, 21, 59, 40, 0)
LongRunMillis == U32(HalfMod - 1, HalfMod - WrapLeadMs)
InitLongRun ==
    /\ pc = "loop"
    /\ millis = LongRunMillis
    /\ elapsed = 0
    /\ rtc = LongRunClock
    /\ rtcState = "ok"
    /\ horizon = MaxRunMs
    /\ lastDebounceTime = [i \in BtnIdx |-> U32Zero]
    /\ lastActivity = U32Sub(LongRunMillis, U32(0, 10000))
    /\ lastScheduleCheck = U32Sub(LongRunMillis, U32(0, LongBeepMs + 500 + LoopDelayMs))
    /\ lastHydrationHour = HourOf(LongRunClock)
    /\ pending = [i \in MedIdx |-> TRUE]
    /\ lastAckYMD = [i \in MedIdx |-> 0]
    /\ lastScanned = [i \in KnownIdx |-> InitScanned]
    /\ buzzer = "LOW"
    /\ lcd = Screen("MedDue", 0, <<>>)
    /\ lastSeen = U32Zero
    /\ readerOpen = FALSE
    /\ btnLow = [i \in BtnIdx |-> FALSE]
    /\ tagNear = NoTag
    /\ envLeft = MaxEnvEvents
    /\ act = Act("init", -1)
    /\ out = <<>>
    /\ armDay = [i \in MedIdx |-> 0]
    /\ ackDay = [i \in MedIdx |-> -1]
    /\ lastNudge = DayHour(LongRunClock)
    /\ readAt = 0

Init == InitBoot \/ InitLongRun

(***************************************************************************)
(* setup()                                                                 *)
(***************************************************************************)
\* delay(50); the clock message, if any; lcdStartup (1800 ms, then the menu);
\* lastActivity = millis()
SetupMs ==
    SetupDelayMs
    + (IF rtcState = "notFound" THEN RtcNotFoundMs
       ELSE IF rtcState = "lostPower" THEN RtcLostPowerMs ELSE 0)
    + StartupDelayMs

\* mutant of Setup: a clock that lost power is set back to the first date
Setup_ResetClock ==
    /\ pc = "setup"
    /\ millis' = U32Add(millis, SetupMs)
    /\ elapsed' = elapsed + SetupMs
    /\ rtc' = IF rtcState = "lostPower" THEN SetupMs
              ELSE IF rtcState = "notFound" THEN rtc ELSE rtc + SetupMs
    /\ lastActivity' = U32Add(millis, SetupMs)
    /\ buzzer' = "LOW"
    /\ lcd' = MenuScreen
    /\ out' = (IF rtcState = "notFound" THEN <<Ev("RTC not found", 0)>>
               ELSE IF rtcState = "lostPower" THEN <<Ev("RTC lost power", 0)>>
               ELSE <<>>) \o <<Ev("Startup", 0), Ev("Menu", 0)>>
    /\ act' = Act("setup", -1)
    /\ pc' = "loop"
    /\ UNCHANGED <<hwVars, envVars, medVars, tagVars, lastDebounceTime,
                   lastScheduleCheck, hydVars>>

Setup ==
    /\ pc = "setup"
    /\ Advance(SetupMs)
    /\ lastActivity' = U32Add(millis, SetupMs)
    /\ buzzer' = "LOW"
    /\ lcd' = MenuScreen
    /\ out' = (IF rtcState = "notFound" THEN <<Ev("RTC not found", 0)>>
               ELSE IF rtcState = "lostPower" THEN <<Ev("RTC lost power", 0)>>
               ELSE <<>>) \o <<Ev("Startup", 0), Ev("Menu", 0)>>
    /\ act' = Act("setup", -1)
    /\ pc' = "loop"
    /\ UNCHANGED <<hwVars, envVars, medVars, tagVars, lastDebounceTime,
                   lastScheduleCheck, hydVars>>

(***************************************************************************)
(* loop(): the guards of its timed checks                                  *)
(***************************************************************************)
\* millis() - lastScheduleCheck >= SCHEDULE_CHECK_MS
SchedDue(now) == U32Ge(U32Sub(now, lastScheduleCheck), SCHEDULE_CHECK_MS)
\* millis() - lastActivity > IDLE_MENU_MS
IdleDue(now) == U32Gt(U32Sub(now, lastActivity), IDLE_MENU_MS)

(***************************************************************************)
(* The environment: the user holds or releases one button at a time, and   *)
(* brings a tag to the reader or takes it away.  It acts between two       *)
(* passes of loop() when no timed check is due, and during a tag session   *)
(* once every EnvGridMs.                                                   *)
(***************************************************************************)
EnvGridMs == 5000

EnvSlot ==
    /\ envLeft > 0
    /\ elapsed < horizon
    /\ \/ pc = "loop" /\ ~SchedDue(millis) /\ ~IdleDue(millis)
       \/ pc = "session" /\ elapsed % EnvGridMs < PollDelayMs

EnvStep(a, i) ==
    /\ envLeft' = envLeft - 1
    /\ act' = Act(a, i)
    /\ out' = <<>>
    /\ UNCHANGED <<pc, timeVars, hwVars, btnVars, medVars, tagVars,
                   lastScheduleCheck, hydVars, buzzer, lcd>>

EnvPress(i) ==
    /\ EnvSlot
    /\ \A j \in BtnIdx : ~btnLow[j]
    /\ btnLow' = [btnLow EXCEPT ![i] = TRUE]
    /\ UNCHANGED tagNear
    /\ EnvStep("press", i)

EnvRelease(i) ==
    /\ EnvSlot
    /\ btnLow[i]
    /\ btnLow' = [btnLow EXCEPT ![i] = FALSE]
    /\ UNCHANGED tagNear
    /\ EnvStep("release", i)

EnvTagOn(u) ==
    /\ EnvSlot
    /\ tagNear = NoTag
    /\ \A j \in BtnIdx : ~btnLow[j]
    /\ tagNear' = u
    /\ UNCHANGED btnLow
    /\ EnvStep("tagOn", -1)

EnvTagOff ==
    /\ EnvSlot
    /\ tagNear # NoTag
    /\ tagNear' = NoTag
    /\ UNCHANGED btnLow
    /\ EnvStep("tagOff", -1)

(***************************************************************************)
(* loop(): passes in which nothing fires                                   *)
(***************************************************************************)
\* a pass of loop() in which nothing fires: no tag, no line LOW, no check due
QuietPass ==
    /\ tagNear = NoTag
    /\ \A i \in BtnIdx : ~btnLow[i]
    /\ ~SchedDue(millis)
    /\ ~IdleDue(millis)

\* the number of consecutive quiet passes from now until a check is due
QuietPasses ==
    LET ds == U32Sub(millis, lastScheduleCheck).lo
        di == U32Sub(millis, lastActivity).lo
        ns == (SCHEDULE_CHECK_MS - ds + LoopDelayMs - 1) \div LoopDelayMs
        ni == ((IDLE_MENU_MS - di) \div LoopDelayMs) + 1
    IN  IF ns < ni THEN ns ELSE ni

\* QuietPasses passes of loop() with no input and no check due: each only
\* executes delay(20)
LoopQuiet ==
    /\ pc = "loop"
    /\ elapsed < horizon
    /\ QuietPass
    /\ Advance(QuietPasses * LoopDelayMs)
    /\ act' = Act("quiet", QuietPasses)
    /\ out' = <<>>
    /\ UNCHANGED <<pc, hwVars, envVars, btnVars, medVars, tagVars,
                   lastScheduleCheck, hydVars, buzzer, lcd>>

(***************************************************************************)
(* handleRFID_Auto                                                         *)
(***************************************************************************)
\* PICC_IsNewCardPresent() && PICC_ReadCardSerial() at the top of loop():
\* fails with no tag in the field, succeeds with one
Reads == IF tagNear = NoTag THEN {FALSE} ELSE {TRUE}

\* the same call inside the presence sub-loop
PollReads == IF tagNear = NoTag THEN {FALSE} ELSE {TRUE}

\* the loop over knownItems: the first index whose uidHex matches, or -1
RECURSIVE LookupFrom(_, _)
LookupFrom(uid, i) ==
    IF i >= KNOWN_COUNT THEN -1
    ELSE IF strcasecmp(uid, KnownUidHex[i + 1]) = 0 THEN i
    ELSE LookupFrom(uid, i + 1)
LookupKnown(uid) == LookupFrom(uid, 0)

\* snprintf(buf, size, "%s", s): at most size - 1 characters
Snprintf(size, s) == SubSeq(s, 1, IF Len(s) < size - 1 THEN Len(s) ELSE size - 1)

\* no tag read at the top of loop(): handleRFID_Auto returns at once
RfidNoTag ==
    /\ pc = "loop"
    /\ elapsed < horizon
    /\ ~QuietPass
    /\ FALSE \in Reads
    /\ pc' = "sched"
    /\ act' = Act("noTag", -1)
    /\ out' = <<>>
    /\ UNCHANGED <<timeVars, hwVars, envVars, btnVars, medVars, tagVars,
                   lastScheduleCheck, hydVars, buzzer, lcd>>

\* mutant of RfidTagRead: a tag read counts as user activity
RfidTagRead_MarksActivity ==
    /\ pc = "loop"
    /\ elapsed < horizon
    /\ TRUE \in Reads
    /\ LET uid == uidToHex(tagNear)
           idx == LookupKnown(uid)
           tbuf == timeToStr(rtc)
       IN  /\ lastScanned' = IF idx >= 0
                             THEN [lastScanned EXCEPT ![idx] = Snprintf(9, tbuf)]
                             ELSE lastScanned
           /\ lcd' = IF idx >= 0
                     THEN Screen("Found", idx, Snprintf(9, tbuf))
                     ELSE Screen("Unknown", -1, uid)
           /\ out' = IF idx >= 0 THEN <<Ev("Found", idx)>> ELSE <<Ev("Unknown", -1)>>
           /\ act' = Act("tagRead", idx)
    /\ buzzer' = "HIGH"
    /\ lastSeen' = millis
    /\ readerOpen' = TRUE
    /\ readAt' = elapsed
    /\ pc' = "session"
    /\ lastActivity' = millis
    /\ UNCHANGED <<timeVars, hwVars, envVars, lastDebounceTime, medVars,
                   lastScheduleCheck, hydVars>>

\* a tag is read: look it up, stamp it, render, buzzer on, enter the sub-loop
RfidTagRead ==
    /\ pc = "loop"
    /\ elapsed < horizon
    /\ TRUE \in Reads
    /\ LET uid == uidToHex(tagNear)
           idx == LookupKnown(uid)
           tbuf == timeToStr(rtc)
       IN  /\ lastScanned' = IF idx >= 0
                             THEN [lastScanned EXCEPT ![idx] = Snprintf(9, tbuf)]
                             ELSE lastScanned
           /\ lcd' = IF idx >= 0
                     THEN Screen("Found", idx, Snprintf(9, tbuf))
                     ELSE Screen("Unknown", -1, uid)
           /\ out' = IF idx >= 0 THEN <<Ev("Found", idx)>> ELSE <<Ev("Unknown", -1)>>
           /\ act' = Act("tagRead", idx)
    /\ buzzer' = "HIGH"
    /\ lastSeen' = millis
    /\ readerOpen' = TRUE
    /\ readAt' = elapsed
    /\ pc' = "session"
    /\ UNCHANGED <<timeVars, hwVars, envVars, btnVars, medVars,
                   lastScheduleCheck, hydVars>>

\* mutant of Absent: the tag counts as removed after 100 ms
Absent_Early(now, seen) == U32Gt(U32Sub(now, seen), 100)

\* millis() - lastSeen > 300
Absent(now, seen) == U32Gt(U32Sub(now, seen), AbsenceMs)

\* mutant of SessionPoll: the SOS line is not sampled in the sub-loop
SessionPoll_NoEscape ==
    /\ pc = "session"
    /\ tagNear = NoTag \/ btnLow[3] \/ elapsed >= horizon
    /\ \E read \in (IF elapsed >= horizon THEN {FALSE} ELSE PollReads) :
          LET seen == IF read THEN millis ELSE lastSeen
          IN  /\ lastSeen' = seen
              /\ readerOpen' = (readerOpen \/ read)
              /\ readAt' = IF read THEN elapsed ELSE readAt
              /\ IF Absent(millis, seen)
                 THEN /\ pc' = "sessionOff"
                      /\ act' = Act("breakAbsent", -1)
                      /\ UNCHANGED timeVars
                 ELSE /\ pc' = "session"
                      /\ act' = Act("poll", IF read THEN 1 ELSE 0)
                      /\ Advance(PollDelayMs)
    /\ out' = <<>>
    /\ UNCHANGED <<hwVars, envVars, btnVars, medVars, lastScanned,
                   lastScheduleCheck, hydVars, buzzer, lcd>>

\* one pass of the presence sub-loop: read, absence check, SOS check, delay(20)
SessionPoll ==
    /\ pc = "session"
    /\ tagNear = NoTag \/ btnLow[3] \/ elapsed >= horizon
    /\ \E read \in (IF elapsed >= horizon THEN {FALSE} ELSE PollReads) :
          LET seen == IF read THEN millis ELSE lastSeen
          IN  /\ lastSeen' = seen
              /\ readerOpen' = (readerOpen \/ read)
              /\ readAt' = IF read THEN elapsed ELSE readAt
              /\ IF Absent(millis, seen)
                 THEN /\ pc' = "sessionOff"
                      /\ act' = Act("breakAbsent", -1)
                      /\ UNCHANGED timeVars
                 ELSE IF btnLow[3]
                 THEN /\ pc' = "sessionOff"
                      /\ act' = Act("breakSos", -1)
                      /\ UNCHANGED timeVars
                 ELSE /\ pc' = "session"
                      /\ act' = Act("poll", IF read THEN 1 ELSE 0)
                      /\ Advance(PollDelayMs)
    /\ out' = <<>>
    /\ UNCHANGED <<hwVars, envVars, btnVars, medVars, lastScanned,
                   lastScheduleCheck, hydVars, buzzer, lcd>>

\* the passes of the sub-loop from now to the next moment the environment may
\* act
HoldPolls ==
    (EnvGridMs - (elapsed % EnvGridMs) + PollDelayMs - 1) \div PollDelayMs

\* HoldPolls passes of the sub-loop with the tag in the field and the SOS line
\* HIGH: the reads succeed, but for the last `missed` of them; no pass breaks
SessionHold ==
    /\ pc = "session"
    /\ tagNear # NoTag
    /\ ~btnLow[3]
    /\ elapsed < horizon
    /\ \E missed \in 0 .. MaxMissedPolls :
          /\ missed < HoldPolls
          /\ lastSeen' = U32Add(millis, (HoldPolls - 1 - missed) * PollDelayMs)
          /\ readAt' = elapsed + (HoldPolls - 1 - missed) * PollDelayMs
          /\ act' = Act("hold", missed)
    /\ readerOpen' = TRUE
    /\ Advance(HoldPolls * PollDelayMs)
    /\ out' = <<>>
    /\ UNCHANGED <<pc, hwVars, envVars, btnVars, medVars, lastScanned,
                   lastScheduleCheck, hydVars, buzzer, lcd>>

\* mutant of SessionBuzzerOff: the buzzer is not switched off
SessionBuzzerOff_Skip ==
    /\ pc = "sessionOff"
    /\ pc' = "sessionHalt"
    /\ act' = Act("buzzerOff", -1)
    /\ out' = <<>>
    /\ UNCHANGED <<timeVars, hwVars, envVars, btnVars, medVars, tagVars,
                   lastScheduleCheck, hydVars, lcd, buzzer>>

\* after the sub-loop: digitalWrite(BUZZER_PIN, LOW)
SessionBuzzerOff ==
    /\ pc = "sessionOff"
    /\ buzzer' = "LOW"
    /\ pc' = "sessionHalt"
    /\ act' = Act("buzzerOff", -1)
    /\ out' = <<>>
    /\ UNCHANGED <<timeVars, hwVars, envVars, btnVars, medVars, tagVars,
                   lastScheduleCheck, hydVars, lcd>>

\* PICC_HaltA(); PCD_StopCrypto1(); lcdMenu()
SessionHalt ==
    /\ pc = "sessionHalt"
    /\ readerOpen' = FALSE
    /\ lcd' = MenuScreen
    /\ out' = <<Ev("HaltA", 0), Ev("StopCrypto1", 0), Ev("Menu", 0)>>
    /\ act' = Act("sessionEnd", -1)
    /\ pc' = "sched"
    /\ UNCHANGED <<timeVars, hwVars, envVars, btnVars, medVars, lastScanned,
                   lastSeen, readAt, lastScheduleCheck, hydVars, buzzer>>

(***************************************************************************)
(* checkMedicinesAuto                                                      *)
(***************************************************************************)
\* what rtc.now() reads d ms after the start of the step
RtcAfter(d) == IF rtcState = "notFound" THEN rtc ELSE rtc + d

\* mutant of NudgeDue: the marker is not compared
NudgeDue_NoMarker(now, marker) == MinuteOf(now) = 0

\* the hydration guard: minute 0 and a marker that differs from the hour
NudgeDue(now, marker) == MinuteOf(now) = 0 /\ marker # HourOf(now)

\* mutant of BecomesDue: the date of the last acknowledgment is not compared
BecomesDue_NoDateGuard(i, now, pend, ack) ==
    /\ ~pend[i]
    /\ HourOf(now) = MedHour[i + 1]
    /\ MinuteOf(now) = MedMinute[i + 1]

\* the due-check of entry i: not pending, time matches, not acknowledged today
BecomesDue(i, now, pend, ack) ==
    /\ ~pend[i]
    /\ HourOf(now) = MedHour[i + 1]
    /\ MinuteOf(now) = MedMinute[i + 1]
    /\ ack[i] # ymdNow(now)

\* mutant of MarkDue: the flags are recomputed from the clock in every cycle
MarkDue_Recompute(now, pend, ack) ==
    [i \in MedIdx |-> BecomesDue(i, now, [j \in MedIdx |-> FALSE], ack)]

\* the due-check loop over the entries: an entry pending stays pending
MarkDue(now, pend, ack) ==
    [i \in MedIdx |-> pend[i] \/ BecomesDue(i, now, pend, ack)]

\* mutant of FirstPending: the scan runs from the last entry down
FirstPending_Last(pend) ==
    IF \E i \in MedIdx : pend[i]
    THEN CHOOSE i \in MedIdx : pend[i] /\ \A j \in MedIdx : pend[j] => j <= i
    ELSE -1

\* the scan "for i in 0..MED_COUNT-1: if meds[i].pending": lowest index, or -1
RECURSIVE FirstPendingFrom(_, _)
FirstPendingFrom(pend, i) ==
    IF i >= MED_COUNT THEN -1
    ELSE IF pend[i] THEN i
    ELSE FirstPendingFrom(pend, i + 1)
FirstPending(pend) == FirstPendingFrom(pend, 0)

\* shortBeep(); delay(200); shortBeep(); delay(800)
NudgeMs == ShortBeepMs + 200 + ShortBeepMs + 800
\* longBeep(); delay(500)
MedDueMs == LongBeepMs + 500

\* the timed check of loop() is not due
SchedSkip ==
    /\ pc = "sched"
    /\ ~SchedDue(millis)
    /\ pc' = "btnMem"
    /\ act' = Act("schedSkip", -1)
    /\ out' = <<>>
    /\ UNCHANGED <<timeVars, hwVars, envVars, btnVars, medVars, tagVars,
                   lastScheduleCheck, hydVars, buzzer, lcd>>

\* the render loop without its break: every pending entry, in table order
RECURSIVE RenderAllFrom(_, _)
RenderAllFrom(pend, i) ==
    IF i >= MED_COUNT THEN <<>>
    ELSE (IF pend[i] THEN <<Ev("MedDue", i), Beep(LongBeepMs)>> ELSE <<>>)
         \o RenderAllFrom(pend, i + 1)

\* mutant of SchedCheck: the render loop does not break after the first
\* pending entry
SchedCheck_NoBreak ==
    /\ pc = "sched"
    /\ SchedDue(millis)
    /\ lastScheduleCheck' = millis
    /\ LET now == rtc
           nudge == NudgeDue(now, lastHydrationHour)
           pend == MarkDue(now, pending, lastAckYMD)
           first == FirstPending(pend)
           all == RenderAllFrom(pend, 0)
       IN  /\ lastHydrationHour' = IF nudge THEN HourOf(now) ELSE lastHydrationHour
           /\ lastNudge' = IF nudge THEN DayHour(now) ELSE lastNudge
           /\ pending' = MarkDue(now, pending, lastAckYMD)
           /\ armDay' = [i \in MedIdx |->
                            IF ~pending[i] /\ pend[i] THEN DayOf(now) ELSE armDay[i]]
           /\ lcd' = IF first >= 0 THEN Screen("MedDue", first, <<>>)
                     ELSE IF nudge THEN MenuScreen
                     ELSE lcd
           /\ out' = (IF nudge
                      THEN <<Ev("Hydration", HourOf(now)), Beep(ShortBeepMs),
                             Beep(ShortBeepMs), Ev("Menu", 0)>>
                      ELSE <<>>)
                     \o all
           /\ Advance((IF nudge THEN NudgeMs ELSE 0)
                      + (Len(all) \div 2) * MedDueMs)
           /\ act' = Act("sched", first)
    /\ pc' = "btnMem"
    /\ UNCHANGED <<hwVars, envVars, btnVars, lastAckYMD, ackDay, tagVars, buzzer>>

\* the timed check is due: lastScheduleCheck = millis(); checkMedicinesAuto()
SchedCheck ==
    /\ pc = "sched"
    /\ SchedDue(millis)
    /\ lastScheduleCheck' = millis
    /\ LET now == rtc
           nudge == NudgeDue(now, lastHydrationHour)
           pend == MarkDue(now, pending, lastAckYMD)
           first == FirstPending(pend)
       IN  /\ lastHydrationHour' = IF nudge THEN HourOf(now) ELSE lastHydrationHour
           /\ lastNudge' = IF nudge THEN DayHour(now) ELSE lastNudge
           /\ pending' = MarkDue(now, pending, lastAckYMD)
           /\ armDay' = [i \in MedIdx |->
                            IF ~pending[i] /\ pend[i] THEN DayOf(now) ELSE armDay[i]]
           /\ lcd' = IF first >= 0 THEN Screen("MedDue", first, <<>>)
                     ELSE IF nudge THEN MenuScreen
                     ELSE lcd
           /\ out' = (IF nudge
                      THEN <<Ev("Hydration", HourOf(now)), Beep(ShortBeepMs),
                             Beep(ShortBeepMs), Ev("Menu", 0)>>
                      ELSE <<>>)
                     \o (IF first >= 0
                         THEN <<Ev("MedDue", first), Beep(LongBeepMs)>>
                         ELSE <<>>)
           /\ Advance((IF nudge THEN NudgeMs ELSE 0)
                      + (IF first >= 0 THEN MedDueMs ELSE 0))
           /\ act' = Act("sched", first)
    /\ pc' = "btnMem"
    /\ UNCHANGED <<hwVars, envVars, btnVars, lastAckYMD, ackDay, tagVars, buzzer>>

(***************************************************************************)
(* Buttons                                                                 *)
(***************************************************************************)
\* mutant of ReadBtnAccepts: the debounce window is not checked
ReadBtnAccepts_NoWindow(idx, now) == btnLow[idx]

\* readBtnOnce's condition: the line reads LOW and more than DEBOUNCE_MS
\* have passed since the cell's time
ReadBtnAccepts(idx, now) ==
    /\ btnLow[idx]
    /\ U32Gt(U32Sub(now, lastDebounceTime[idx]), DEBOUNCE_MS)

\* readBtnOnce on acceptance: both times recorded; shortBeep() follows
Accepted(idx, now) ==
    /\ lastDebounceTime' = [lastDebounceTime EXCEPT ![idx] = now]
    /\ lastActivity' = now

\* readBtnOnce returns false: nothing happens, loop() goes on
BtnReject(idx, here, next) ==
    /\ pc = here
    /\ ~ReadBtnAccepts(idx, millis)
    /\ pc' = next
    /\ act' = Act(IF btnLow[idx] THEN "drop" ELSE "high", idx)
    /\ out' = <<>>
    /\ UNCHANGED <<timeVars, hwVars, envVars, btnVars, medVars, tagVars,
                   lastScheduleCheck, hydVars, buzzer, lcd>>

BtnMemoryReject == BtnReject(0, "btnMem", "btnMed")
BtnMedReject == BtnReject(1, "btnMed", "btnEx")
BtnExReject == BtnReject(2, "btnEx", "sos")

\* readBtnOnce(BTN_MEMORY_PIN, 0) accepted: memoryPromptScan()
BtnMemory ==
    /\ pc = "btnMem"
    /\ ReadBtnAccepts(0, millis)
    /\ Accepted(0, millis)
    /\ lcd' = Screen("Memory Help", -1, <<>>)
    /\ out' = <<Beep(ShortBeepMs), Ev("Memory Help", 0)>>
    /\ Advance(ShortBeepMs + MemoryPromptMs)
    /\ act' = Act("accept", 0)
    /\ pc' = "btnMed"
    /\ UNCHANGED <<hwVars, envVars, medVars, tagVars, lastScheduleCheck,
                   hydVars, buzzer>>

\* mutant of NextMedIdx: an entry at the current minute counts as later
NextMedIdx_OrEqual(now) ==
    LET hm == HourOf(now) * 60 + MinuteOf(now)
        later == {i \in MedIdx : MedHour[i + 1] * 60 + MedMinute[i + 1] >= hm}
    IN  IF later = {} THEN 0
        ELSE CHOOSE i \in later : \A j \in later : i <= j

\* the scan of confirmFirstPendingMed for the next dose: the first entry, in
\* table order, later than now; entry 0 when there is none
RECURSIVE NextFrom(_, _)
NextFrom(now, i) ==
    IF i >= MED_COUNT THEN -1
    ELSE IF \/ HourOf(now) < MedHour[i + 1]
            \/ (HourOf(now) = MedHour[i + 1] /\ MinuteOf(now) < MedMinute[i + 1])
         THEN i
    ELSE NextFrom(now, i + 1)
NextMedIdx(now) == IF NextFrom(now, 0) = -1 THEN 0 ELSE NextFrom(now, 0)

\* shortBeep(); delay(150); shortBeep(); delay(1200)
TakenMs == ShortBeepMs + 150 + ShortBeepMs + 1200
NextMedMs == 1400

\* readBtnOnce(BTN_MED_PIN, 1) accepted, an entry pending: the first pending
\* entry is cleared and stamped with today's date
BtnMedAck ==
    /\ pc = "btnMed"
    /\ ReadBtnAccepts(1, millis)
    /\ Accepted(1, millis)
    /\ FirstPending(pending) >= 0
    /\ LET i == FirstPending(pending)
           now == RtcAfter(ShortBeepMs)
       IN  /\ pending' = [pending EXCEPT ![i] = FALSE]
           /\ lastAckYMD' = [lastAckYMD EXCEPT ![i] = ymdNow(now)]
           /\ ackDay' = [ackDay EXCEPT ![i] = DayOf(now)]
           /\ \E a \in 0 .. (AFF_COUNT - 1) :
                 out' = <<Beep(ShortBeepMs), Ev("Taken", i), Ev("Affirm", a),
                          Beep(ShortBeepMs), Beep(ShortBeepMs), Ev("Menu", 0)>>
           /\ act' = Act("accept", 1)
    /\ lcd' = MenuScreen
    /\ Advance(ShortBeepMs + TakenMs)
    /\ pc' = "btnEx"
    /\ UNCHANGED <<hwVars, envVars, tagVars, armDay, lastScheduleCheck,
                   hydVars, buzzer>>

\* readBtnOnce(BTN_MED_PIN, 1) accepted, nothing pending: the next dose
BtnMedNext ==
    /\ pc = "btnMed"
    /\ ReadBtnAccepts(1, millis)
    /\ Accepted(1, millis)
    /\ FirstPending(pending) = -1
    /\ out' = <<Beep(ShortBeepMs), Ev("NextMed", NextMedIdx(RtcAfter(ShortBeepMs))),
                Ev("Menu", 0)>>
    /\ act' = Act("accept", 1)
    /\ lcd' = MenuScreen
    /\ Advance(ShortBeepMs + NextMedMs)
    /\ pc' = "btnEx"
    /\ UNCHANGED <<hwVars, envVars, medVars, tagVars, lastScheduleCheck,
                   hydVars, buzzer>>

\* exerciseFlow: 800 ms, two rounds of inhale 4 s, hold 5 s, exhale 4 s with
\* their beeps, then two short beeps and 1200 ms
ExerciseMs ==
    800 + 2 * (ShortBeepMs + 4000 + 5000 + LongBeepMs + 4000)
    + (ShortBeepMs + 200 + ShortBeepMs + 1200)

\* readBtnOnce(BTN_EX_PIN, 2) accepted: exerciseFlow()
BtnExercise ==
    /\ pc = "btnEx"
    /\ ReadBtnAccepts(2, millis)
    /\ Accepted(2, millis)
    /\ out' = <<Beep(ShortBeepMs), Ev("Breathing", 0),
                Beep(ShortBeepMs), Beep(LongBeepMs),
                Beep(ShortBeepMs), Beep(LongBeepMs),
                Ev("Well done", 0), Beep(ShortBeepMs), Beep(ShortBeepMs),
                Ev("Menu", 0)>>
    /\ act' = Act("accept", 2)
    /\ lcd' = MenuScreen
    /\ Advance(ShortBeepMs + ExerciseMs)
    /\ pc' = "sos"
    /\ UNCHANGED <<hwVars, envVars, medVars, tagVars, lastScheduleCheck,
                   hydVars, buzzer>>

(***************************************************************************)
(* SOS                                                                     *)
(***************************************************************************)
\* the inline check of loop(): the line reads LOW and the cell's window is over
SosAccepts(now) ==
    /\ btnLow[3]
    /\ U32Gt(U32Sub(now, lastDebounceTime[3]), DEBOUNCE_MS)

\* one round of the pattern: short, long, short, each followed by 200 + 300 ms
SosRoundMs == (ShortBeepMs + 500) + (LongBeepMs + 500) + (ShortBeepMs + 500)

\* while (millis() - start < SOS_DURATION): the offsets from start at which a
\* round begins
RECURSIVE SosRounds(_)
SosRounds(e) ==
    IF e < SOS_DURATION THEN <<e>> \o SosRounds(e + SosRoundMs) ELSE <<>>

RECURSIVE SosBeeps(_)
SosBeeps(rounds) ==
    IF rounds = <<>> THEN <<>>
    ELSE <<Ev("round", Head(rounds)), Beep(ShortBeepMs), Beep(LongBeepMs),
           Beep(ShortBeepMs)>> \o SosBeeps(Tail(rounds))

\* the offsets from start at which the three pulses of a round begun at e end
SosPulseEnds(e) ==
    { e + ShortBeepMs,
      e + (ShortBeepMs + 500) + LongBeepMs,
      e + (ShortBeepMs + 500) + (LongBeepMs + 500) + ShortBeepMs }

\* sosFlow: 600 ms banner, the rounds, 1500 ms closing message, the menu
SosFlowMs == 600 + Len(SosRounds(0)) * SosRoundMs + 1500

SosReject ==
    /\ pc = "sos"
    /\ ~SosAccepts(millis)
    /\ pc' = "idle"
    /\ act' = Act(IF btnLow[3] THEN "drop" ELSE "high", 3)
    /\ out' = <<>>
    /\ UNCHANGED <<timeVars, hwVars, envVars, btnVars, medVars, tagVars,
                   lastScheduleCheck, hydVars, buzzer, lcd>>

SosAccept ==
    /\ pc = "sos"
    /\ SosAccepts(millis)
    /\ lastDebounceTime' = [lastDebounceTime EXCEPT ![3] = millis]
    /\ out' = <<Ev("SOS ALERT", 0)>> \o SosBeeps(SosRounds(0))
              \o <<Ev("SOS Ended", 0), Ev("Menu", 0)>>
    /\ act' = Act("accept", 3)
    /\ lcd' = MenuScreen
    /\ Advance(SosFlowMs)
    /\ pc' = "idle"
    /\ UNCHANGED <<hwVars, envVars, lastActivity, medVars, tagVars,
                   lastScheduleCheck, hydVars, buzzer>>

(***************************************************************************)
(* Idle menu refresh and the end of the pass                               *)
(***************************************************************************)
IdleRefresh ==
    /\ pc = "idle"
    /\ IdleDue(millis)
    /\ lcd' = MenuScreen
    /\ lastActivity' = millis
    /\ out' = <<Ev("Menu", 0)>>
    /\ act' = Act("idleRefresh", -1)
    /\ Advance(LoopDelayMs)
    /\ pc' = "loop"
    /\ UNCHANGED <<hwVars, envVars, lastDebounceTime, medVars, tagVars,
                   lastScheduleCheck, hydVars, buzzer>>

IdleSkip ==
    /\ pc = "idle"
    /\ ~IdleDue(millis)
    /\ out' = <<>>
    /\ act' = Act("idleSkip", -1)
    /\ Advance(LoopDelayMs)
    /\ pc' = "loop"
    /\ UNCHANGED <<hwVars, envVars, btnVars, medVars, tagVars,
                   lastScheduleCheck, hydVars, buzzer, lcd>>

(***************************************************************************)
(* Specification                                                           *)
(***************************************************************************)
Next ==
    \/ Setup
    \/ \E i \in BtnIdx : EnvPress(i)
    \/ \E i \in BtnIdx : EnvRelease(i)
    \/ \E u \in Tags : EnvTagOn(u)
    \/ EnvTagOff
    \/ LoopQuiet
    \/ RfidNoTag
    \/ RfidTagRead
    \/ SessionPoll
    \/ SessionHold
    \/ SessionBuzzerOff
    \/ SessionHalt
    \/ SchedSkip
    \/ SchedCheck
    \/ BtnMemoryReject
    \/ BtnMemory
    \/ BtnMedReject
    \/ BtnMedAck
    \/ BtnMedNext
    \/ BtnExReject
    \/ BtnExercise
    \/ SosReject
    \/ SosAccept
    \/ IdleRefresh
    \/ IdleSkip

Spec == Init /\ [][Next]_vars

\* the processor keeps executing: a step that can be taken is taken
FairSpec == Spec /\ WF_vars(Next)

(***************************************************************************)
(* Power-on at any minute of the day, then one press of the medicine       *)
(* button, sampled in the first pass of loop()                             *)
(***************************************************************************)
DayRunMs == 2000
DayBoots ==
    { [clock |-> ClockAt(0, h, m, 0, 0), rtc |-> "ok", run |-> DayRunMs] :
        h \in 0 .. 23, m \in 0 .. 59 }
InitDay == \E b \in DayBoots : BootState(b)
NextDay ==
    \/ Setup
    \/ EnvPress(1)
    \/ RfidNoTag
    \/ SchedSkip
    \/ BtnMemoryReject
    \/ BtnMedNext
    \/ BtnExReject
    \/ SosReject
    \/ IdleSkip
SpecDay == InitDay /\ [][NextDay]_vars

(***************************************************************************)
(* Properties                                                              *)
(***************************************************************************)
\* where loop() samples button i
BtnPc(i) == CASE i = 0 -> "btnMem" [] i = 1 -> "btnMed" [] i = 2 -> "btnEx" [] OTHER -> "sos"
\* the sample of button i falls inside the window of its debounce cell
InWindow(i) == ~U32Gt(U32Sub(millis, lastDebounceTime[i]), DEBOUNCE_MS)
\* the step rendered the hydration nudge
Nudged(o) == \E k \in 1 .. Len(o) : o[k].o = "Hydration"

\* C1: a debounce cell changes only when its button is sampled LOW more than
\* DEBOUNCE_MS of millis() time after the cell's previous value (the previous
\* accepted press), and then holds the time of the sample; a sample that
\* reads LOW inside the window changes no cell, not lastActivity, sounds no
\* beep, takes no time and starts no flow.
C1_Step ==
    \A i \in BtnIdx :
       /\ lastDebounceTime'[i] # lastDebounceTime[i] =>
             /\ pc = BtnPc(i)
             /\ btnLow[i]
             /\ lastDebounceTime'[i] = millis
             /\ U32Gt(U32Sub(millis, lastDebounceTime[i]), DEBOUNCE_MS)
       /\ (pc = BtnPc(i) /\ btnLow[i] /\ InWindow(i)) =>
             /\ UNCHANGED <<lastDebounceTime, lastActivity, timeVars, medVars,
                            tagVars, buzzer, lcd>>
             /\ out' = <<>>
C1_Debounce == [][C1_Step]_vars
\* a button held LOW was sampled inside its window and dropped
C1_Dropped == act.a = "drop" /\ btnLow[act.i] /\ InWindow(act.i) /\ out = <<>>

\* C2: a pending flag goes from true to false only in the step that accepts
\* a medicine-button press (confirmFirstPendingMed); every other step - a
\* scheduler cycle, a tag session, another flow, an idle redraw - keeps it.
C2_Step ==
    \A i \in MedIdx :
       (pending[i] /\ ~pending'[i]) =>
          /\ pc = "btnMed"
          /\ btnLow[1]
          /\ lastDebounceTime'[1] = millis
          /\ act' = Act("accept", 1)
C2_PendingSticky == [][C2_Step]_vars
\* entry 0 was acknowledged and entry 3 is still pending after a later cycle
C2_StillPending == act.a = "sched" /\ pending[3] /\ ~pending[0] /\ ackDay[0] >= 0

\* C3: an entry becomes pending only on a day on which it was neither
\* acknowledged nor already made pending before: after an acknowledgment on
\* day D no cycle of day D re-arms it, and it is armed at most once a day.
C3_Step ==
    \A i \in MedIdx :
       (~pending[i] /\ pending'[i]) =>
          /\ ackDay[i] # DayOf(rtc)
          /\ armDay[i] # DayOf(rtc)
C3_NoRearm == [][C3_Step]_vars
\* entry 0 was armed and acknowledged today, and a cycle has run since while
\* the clock still reads 08:00, leaving it not pending
C3_CycleAfterAck ==
    /\ act.a = "sched"
    /\ rtcState = "ok"
    /\ HourOf(rtc) = 8 /\ MinuteOf(rtc) = 0
    /\ armDay[0] = DayOf(rtc) /\ ackDay[0] = DayOf(rtc)
    /\ ~pending[0]

\* C4: the step that renders the hydration nudge is never taken for a date
\* and hour for which the nudge was already rendered.
C4_Step == Nudged(out') => lastNudge # DayHour(rtc)
C4_NudgeOnce == [][C4_Step]_vars
\* a cycle ran in minute 0 of the hour already nudged, and did not nudge
C4_SecondCycle ==
    /\ act.a = "sched"
    /\ rtcState = "ok"
    /\ MinuteOf(rtc) = 0
    /\ lastNudge = DayHour(rtc)
    /\ ~Nudged(out)

\* the start of the clock hour of t
HourStart(t) == DayHour(t) * MsPerHour

\* C5: no hour boundary that passes while loop() runs is skipped: once the
\* clock has left minute 0 of an hour that began after setup(), the nudge
\* was rendered for that hour.
C5_NoBoundarySkipped ==
    ( /\ rtcState # "notFound"
      /\ pc # "setup"
      /\ MinuteOf(rtc) >= 1
      /\ rtc - elapsed + SetupMs <= HourStart(rtc) )
    => lastNudge = DayHour(rtc)

\* the lowest index of a pending entry
LowestPending == CHOOSE i \in MedIdx : pending[i] /\ \A j \in MedIdx : j < i => ~pending[j]

\* C6: an accepted medicine-button press with an entry pending clears the
\* flag of the lowest-index pending entry, stamps it with the date the clock
\* shows, and leaves the flag and the stamp of every other entry unchanged.
C6_Step ==
    (pc = "btnMed" /\ btnLow[1] /\ ~InWindow(1) /\ \E i \in MedIdx : pending[i]) =>
       /\ ~pending'[LowestPending]
       /\ lastAckYMD'[LowestPending] = ymdNow(RtcAfter(ShortBeepMs))
       /\ ackDay'[LowestPending] = DayOf(RtcAfter(ShortBeepMs))
       /\ \A j \in MedIdx \ {LowestPending} :
             pending'[j] = pending[j] /\ lastAckYMD'[j] = lastAckYMD[j]
C6_AckLowest == [][C6_Step]_vars
\* two acknowledgments have cleared entries 0 and 1, in that order of index
C6_TwoAcked ==
    /\ act = Act("accept", 1)
    /\ ~pending[0] /\ ~pending[1] /\ pending[2] /\ pending[3]
    /\ ackDay[0] >= 0 /\ ackDay[1] >= 0 /\ ackDay[2] = -1

\* minutes since midnight
MinuteOfDay(t) == HourOf(t) * 60 + MinuteOf(t)
MedMinuteOfDay(i) == MedHour[i + 1] * 60 + MedMinute[i + 1]
\* minutes from time-of-day hm to the next occurrence of entry i strictly
\* after hm, less one
WaitFor(i, hm) == (MedMinuteOfDay(i) - hm - 1) % 1440
\* the first entry, in table order, later than hm today; entry 0 if none
FirstLater(hm) ==
    IF \E i \in MedIdx : MedMinuteOfDay(i) > hm
    THEN CHOOSE i \in MedIdx :
            /\ MedMinuteOfDay(i) > hm
            /\ \A j \in MedIdx : j < i => MedMinuteOfDay(j) <= hm
    ELSE 0
\* the dose that comes soonest after hm, today or tomorrow
Soonest(hm) == CHOOSE i \in MedIdx : \A j \in MedIdx : WaitFor(i, hm) <= WaitFor(j, hm)

\* C7: an accepted medicine-button press with no entry pending renders as
\* Next Med the first entry in table order later than the time of day, entry
\* 0 when there is none; for the shipped table that is the soonest future
\* dose; no pending flag and no stamp changes.
C7_Step ==
    (pc = "btnMed" /\ btnLow[1] /\ ~InWindow(1) /\ \A i \in MedIdx : ~pending[i]) =>
       LET hm == MinuteOfDay(RtcAfter(ShortBeepMs))
       IN  /\ Len(out') = 3
           /\ out'[2] = Ev("NextMed", FirstLater(hm))
           /\ FirstLater(hm) = Soonest(hm)
           /\ UNCHANGED <<pending, lastAckYMD>>
C7_NextMed == [][C7_Step]_vars
\* pressed at 09:00 with nothing pending: the 13:30 entry is rendered
C7_AtNine ==
    /\ act = Act("accept", 1)
    /\ HourOf(rtc) = 9 /\ MinuteOf(rtc) = 0
    /\ \E k \in 1 .. Len(out) : out[k] = Ev("NextMed", 1)

\* the hex digits, and the hex identity of uid bytes
HexDigits == <<48, 49, 50, 51, 52, 53, 54, 55, 56, 57, 65, 66, 67, 68, 69, 70>>
HexOf(bytes) ==
    [k \in 1 .. 2 * Len(bytes) |->
        IF k % 2 = 1 THEN HexDigits[(bytes[(k + 1) \div 2] \div 16) + 1]
        ELSE HexDigits[(bytes[k \div 2] % 16) + 1]]
Upper(c) == IF c >= 97 /\ c <= 122 THEN c - 32 ELSE c
\* equal length and equal characters, letter case ignored
SameIgnoringCase(a, b) ==
    Len(a) = Len(b) /\ \A k \in 1 .. Len(a) : Upper(a[k]) = Upper(b[k])
Matches(hex) == {i \in KnownIdx : SameIgnoringCase(hex, KnownUidHex[i + 1])}
\* "HH:MM:SS" of a clock value
Stamp(t) ==
    << 48 + (HourOf(t) \div 10), 48 + (HourOf(t) % 10), 58,
       48 + (MinuteOf(t) \div 10), 48 + (MinuteOf(t) % 10), 58,
       48 + (SecondOf(t) \div 10), 48 + (SecondOf(t) % 10) >>

\* C8: the step that reads a tag treats it as known exactly when its hex
\* identity equals a known uidHex, case ignored, same length; then only the
\* first matching item's lastScanned becomes the current HH:MM:SS and Found
\* is rendered; otherwise Unknown Tag is rendered with the raw identity and
\* no known item changes.
C8_Step ==
    (pc = "loop" /\ pc' = "session") =>
       LET hex == HexOf(tagNear)
       IN  IF Matches(hex) # {}
           THEN LET idx == CHOOSE i \in Matches(hex) : \A j \in Matches(hex) : i <= j
                IN  /\ lastScanned' = [lastScanned EXCEPT ![idx] = Stamp(rtc)]
                    /\ lcd' = Screen("Found", idx, Stamp(rtc))
                    /\ out' = <<Ev("Found", idx)>>
           ELSE /\ lastScanned' = lastScanned
                /\ lcd' = Screen("Unknown", -1, hex)
                /\ out' = <<Ev("Unknown", -1)>>
C8_Lookup == [][C8_Step]_vars
\* the Glasses tag was read: its item alone carries a new time
C8_FoundGlasses ==
    /\ act = Act("tagRead", 2)
    /\ tagNear = TagGlasses
    /\ lcd.screen = "Found" /\ lcd.idx = 2
    /\ lastScanned[2] = Stamp(rtc)
    /\ lastScanned[0] = InitScanned /\ lastScanned[1] = InitScanned

\* C9: the buzzer is HIGH at every step of the presence sub-loop and LOW
\* everywhere else between steps; when the sub-loop has ended and the buzzer
\* is already LOW the display still shows the tag, so the buzzer goes LOW
\* before the menu is redrawn.
C9_Buzzer ==
    /\ pc \in {"session", "sessionOff"} => buzzer = "HIGH"
    /\ pc \notin {"session", "sessionOff"} => buzzer = "LOW"
    /\ pc = "sessionHalt" => lcd.screen \in {"Found", "Unknown"}
\* a session left through SOS, the tag still in the field: buzzer off, menu
C9_ExitBySos ==
    /\ act.a = "sessionEnd"
    /\ btnLow[3] /\ tagNear # NoTag
    /\ buzzer = "LOW" /\ lcd = MenuScreen

\* C10: the sub-loop is left only when more than 300 ms have passed since
\* the last successful read or the SOS line reads LOW; it never stays beyond
\* the poll after those 300 ms; once left, the buzzer step and then the halt
\* step (HaltA, StopCrypto1, menu) follow and loop() goes on; and with the
\* tag gone the session ends.
C10_Leave ==
    (pc = "session" /\ pc' # "session") =>
       /\ pc' = "sessionOff"
       /\ elapsed - readAt' > AbsenceMs \/ btnLow[3]
C10_Close ==
    /\ pc = "sessionOff" => pc' = "sessionHalt"
    /\ pc = "sessionHalt" =>
          /\ pc' = "sched"
          /\ out' = <<Ev("HaltA", 0), Ev("StopCrypto1", 0), Ev("Menu", 0)>>
          /\ lcd' = MenuScreen
          /\ ~readerOpen'
C10_Session ==
    /\ [][C10_Leave /\ C10_Close]_vars
    /\ [](pc = "session" => elapsed - readAt <= AbsenceMs + PollDelayMs)
    /\ ((pc = "session" /\ tagNear = NoTag) ~> (act.a = "sessionEnd" \/ tagNear # NoTag))
\* a session ended by absence: reader halted, menu shown
C10_EndedByAbsence ==
    /\ act.a = "sessionEnd"
    /\ tagNear = NoTag /\ ~btnLow[3]
    /\ elapsed - readAt > AbsenceMs
    /\ ~readerOpen /\ lcd = MenuScreen /\ pc = "sched"

\* the clock messages setup() can render
RtcMessages == {Ev("RTC not found", 0), Ev("RTC lost power", 0)}
Rendered(o) == {o[k] : k \in 1 .. Len(o)}

\* C11: whatever the clock chip answers, the step of setup() leads into
\* loop(): a missing chip renders RTC not found, a chip that lost power
\* renders RTC lost power and its clock runs on from the value it held, a
\* sound chip renders neither; setup() is never entered again and always
\* ends.
C11_Step ==
    /\ pc = "setup" =>
          /\ pc' = "loop"
          /\ rtcState' = rtcState
          /\ Rendered(out') \cap RtcMessages =
                (IF rtcState = "notFound" THEN {Ev("RTC not found", 0)}
                 ELSE IF rtcState = "lostPower" THEN {Ev("RTC lost power", 0)}
                 ELSE {})
          /\ rtcState # "notFound" => rtc' - rtc = elapsed' - elapsed
          /\ lcd' = MenuScreen
    /\ pc # "setup" => pc' # "setup"
C11_Setup ==
    /\ [][C11_Step]_vars
    /\ (pc = "setup" ~> pc = "loop")
\* setup() has ended on a chip that lost power: the clock ran on
C11_LostPowerBooted ==
    /\ act = Act("setup", -1)
    /\ rtcState = "lostPower"
    /\ pc = "loop"
    /\ out[1] = Ev("RTC lost power", 0)
    /\ rtc = ClockAt(0, 7, 59, 50, 0) + elapsed

\* C12: from the read that opens a tag session to the end of its sub-loop
\* nothing else runs: no flow or scheduler output, no redraw, and the pending
\* flags, the stamps, lastHydrationHour, lastScheduleCheck, the four
\* debounce cells and lastActivity keep their values; of the known items
\* only the matched one's lastScanned changes, and only at the opening read.
C12_Step ==
    /\ (pc = "loop" /\ pc' = "session") =>
          /\ UNCHANGED <<pending, lastAckYMD, lastHydrationHour, lastScheduleCheck,
                         lastDebounceTime, lastActivity>>
          /\ \A k \in KnownIdx : lastScanned'[k] # lastScanned[k] => k = act'.i
          /\ Rendered(out') \subseteq {Ev("Found", act'.i), Ev("Unknown", -1)}
    /\ pc = "session" =>
          /\ pc' \in {"session", "sessionOff"}
          /\ UNCHANGED <<pending, lastAckYMD, lastHydrationHour, lastScheduleCheck,
                         lastDebounceTime, lastActivity, lastScanned, lcd>>
          /\ out' = <<>>
C12_SessionFrame == [][C12_Step]_vars
\* a session still running while the scheduler check and the idle redraw
\* are overdue, the medicine button is held and an entry is pending
C12_Starved ==
    /\ pc = "session"
    /\ act.a = "hold"
    /\ SchedDue(millis) /\ IdleDue(millis)
    /\ btnLow[1] /\ pending[0]
    /\ lcd.screen = "Found"

\* a step of the program, not of the user
ProgramStep == btnLow' = btnLow /\ tagNear' = tagNear

\* C13: a pass of the presence sub-loop that finds the SOS line LOW ends the
\* session in that pass, with no further delay, although the tag is in the
\* field and was read in the same pass; and from a session with the SOS line
\* LOW the SOS flow starts unless the line is released first, the tag being
\* removed or not.
C13_Step ==
    (pc = "session" /\ btnLow[3] /\ ProgramStep) =>
       /\ pc' = "sessionOff"
       /\ elapsed' = elapsed
       /\ tagNear # NoTag /\ elapsed < horizon =>
             act' = Act("breakSos", -1) /\ readAt' = elapsed
C13_SosPriority ==
    /\ [][C13_Step]_vars
    /\ ((pc = "session" /\ btnLow[3]) ~> (act = Act("accept", 3) \/ ~btnLow[3]))
\* the SOS flow has run right after a session, the tag never removed
C13_SosOverTag ==
    /\ act = Act("accept", 3)
    /\ btnLow[3] /\ tagNear # NoTag
    /\ readAt > 0
    /\ elapsed - readAt <= SosFlowMs + NudgeMs + MedDueMs
    /\ ~readerOpen

\* the positions of an output sequence holding a MED DUE rendering, and
\* those holding a long beep
DuePositions(o) == {k \in 1 .. Len(o) : o[k].o = "MedDue"}
LongBeeps(o) == {k \in 1 .. Len(o) : o[k] = Beep(LongBeepMs)}

\* C14: a scheduler cycle that leaves an entry pending renders exactly one
\* MED DUE, with exactly one long beep, for the lowest-index pending entry,
\* so every entry below the rendered one is not pending; a cycle that leaves
\* none pending renders none; nothing but a scheduler cycle renders MED DUE.
C14_Step ==
    /\ (pc = "sched" /\ SchedDue(millis)) =>
          IF \E i \in MedIdx : pending'[i]
          THEN /\ Cardinality(DuePositions(out')) = 1
               /\ Cardinality(LongBeeps(out')) = 1
               /\ \A k \in DuePositions(out') :
                     /\ pending'[out'[k].n]
                     /\ \A j \in MedIdx : j < out'[k].n => ~pending'[j]
                     /\ lcd' = Screen("MedDue", out'[k].n, <<>>)
          ELSE DuePositions(out') = {} /\ LongBeeps(out') = {}
    /\ ~(pc = "sched" /\ SchedDue(millis)) => DuePositions(out') = {}
C14_OneMedDue == [][C14_Step]_vars
\* entry 0 acknowledged, entries 1, 2, 3 pending: the cycle rendered entry 1
C14_SecondShown ==
    /\ act = Act("sched", 1)
    /\ ~pending[0] /\ ackDay[0] >= 0
    /\ pending[1] /\ pending[2] /\ pending[3]
    /\ DuePositions(out) # {}

\* where the program is about to issue PICC_IsNewCardPresent /
\* PICC_ReadCardSerial: the top of loop() and every pass of the sub-loop
AtReadAttempt == pc \in {"loop", "session"}

\* C15: whenever a read attempt is about to be issued, the reader session of
\* the last successful read has been closed by PICC_HaltA and PCD_StopCrypto1.
C15_ClosedBeforeRead == AtReadAttempt => ~readerOpen

\* the rounds of the SOS flow a step has run, by their offset from start
RoundsRun(o) == {o[k].n : k \in {j \in 1 .. Len(o) : o[j].o = "round"}}

\* C16: when the SOS flow has run, every pulse of it ended within
\* SOS_DURATION of the window start, and the flow blocked for the 600 ms
\* banner plus SOS_DURATION before the closing message.
C16_FixedWindow ==
    act = Act("accept", 3) =>
       /\ \A e \in RoundsRun(out) : \A t \in SosPulseEnds(e) : t <= SOS_DURATION
       /\ SosFlowMs - 1500 <= 600 + SOS_DURATION

\* YYYYMMDD of the date with day index d
ExactYmd(d) == Dates[d + 1][1] * 10000 + Dates[d + 1][2] * 100 + Dates[d + 1][3]

\* C17: the stamp an acknowledgment stores is the integer YYYYMMDD of the
\* date of the acknowledgment, and is not the initial stamp 0.
C17_ExactStamp ==
    \A i \in MedIdx :
       ackDay[i] >= 0 => lastAckYMD[i] = ExactYmd(ackDay[i]) /\ lastAckYMD[i] # 0

\* the clock value at which entry i's scheduled minute begins on day d
DueStart(i, d) == ClockAt(d, MedHour[i + 1], MedMinute[i + 1], 0, 0)

\* C18: once the scheduled minute of an entry has passed, on a day on which
\* loop() was already running when that minute began, the entry was armed
\* that day, unless it was still pending from before or acknowledged that
\* day.
C18_NoDueMinuteMissed ==
    \A i \in MedIdx :
       ( /\ rtcState # "notFound"
         /\ pc # "setup"
         /\ rtc - elapsed + SetupMs <= DueStart(i, DayOf(rtc))
         /\ rtc >= DueStart(i, DayOf(rtc)) + MsPerMin )
       => \/ armDay[i] = DayOf(rtc)
          \/ pending[i]
          \/ ackDay[i] = DayOf(rtc)

\* C19: a scheduler cycle inside the scheduled minute of an entry that is not
\* pending and was not armed today arms it, also when the entry, armed on an
\* earlier day, was acknowledged earlier today.
C19_Step ==
    \A i \in MedIdx :
       ( /\ pc = "sched" /\ SchedDue(millis)
         /\ rtcState # "notFound"
         /\ HourOf(rtc) = MedHour[i + 1] /\ MinuteOf(rtc) = MedMinute[i + 1]
         /\ ~pending[i]
         /\ armDay[i] >= 0 /\ armDay[i] < DayOf(rtc)
         /\ ackDay[i] = DayOf(rtc) )
       => pending'[i]
C19_LateAckKeepsDose == [][C19_Step]_vars

\* the entries acknowledged so far
AckedEntries == {i \in MedIdx : ackDay[i] >= 0}

\* C20: when all the user has done is press the medicine button, the line
\* still held, at most one entry has been acknowledged.
C20_OnePressOneAck ==
    (envLeft = MaxEnvEvents - 1 /\ btnLow[1]) => Cardinality(AckedEntries) <= 1

====
